---- MODULE Spec2Model ----
(***************************************************************************)
(* flywheel-gear-dev-mcp: the fetch / normalize / cache pipeline of        *)
(* src/flywheel_gear_mcp/fetcher.py, the normalizers of parsers.py, the    *)
(* read side of tools.py and the request handlers of server.py.            *)
(*                                                                         *)
(* Spec has the calls of fetch_all_docs one after the other, with readers  *)
(* of the cache at any time; ParserSpec runs the normalizers on contents   *)
(* of every kind; ServerSpec has the tool invocations of the server, each  *)
(* with the refresh it starts.                                             *)
(*                                                                         *)
(* Scheduling is asyncio's: one thread, and a coroutine runs without       *)
(* interruption from one await to the next.  An action is therefore the    *)
(* code between two suspension points.  The suspension points are          *)
(* client.get (fetcher.py:147), asyncio.sleep (fetcher.py:158,165) and     *)
(* asyncio.gather (fetcher.py:49).                                         *)
(*                                                                         *)
(* Text is a sequence of characters; a Python dict is a function whose     *)
(* DOMAIN is its key set; None, texts and exceptions are tagged records.   *)
(***************************************************************************)
EXTENDS Integers, Sequences, FiniteSets, TLC

VARIABLES
    docs_cache,   \* fetcher._docs_cache: tool_name -> Document
    cyc,          \* the calls of fetch_all_docs: position, sources, tasks, outcome
    now,          \* the clock datetime.now() reads
    published,    \* history: the catalog the last completed fetch_all_docs returned
    config_file,  \* config.yaml: whether it can be opened, and its documentation_sources
    response,     \* the value the last tool execution returned to its caller
    parsing,      \* a run of the normalizers of parsers.py: its input and its result
    initialized,  \* server._initialized
    calls,        \* the tool invocations the server handles: position, tool, outcome
    heap,         \* the dict objects of the catalogs and of the Documents
    cache_ref,    \* the catalog object the name _docs_cache is bound to
    held          \* the catalogs callers hold: the object, and what it held when obtained

vars == <<docs_cache, cyc, now, published, config_file, response,
          parsing, initialized, calls, heap, cache_ref, held>>

\* The variables of the server
server_vars == <<initialized, calls>>

\* The variables of the objects
heap_vars == <<heap, cache_ref, held>>

-----------------------------------------------------------------------------
(* Bounds and program constants *)

\* fetch_all_docs is called at most MaxCycles times in a behaviour, and the
\* server handles at most MaxCycles tool invocations
MaxCycles == 2

\* _fetch_with_retry(client, url, max_retries: int = 3)
max_retries == 3

Cycles == 1..MaxCycles

\* Variant: only 404 ends the fetch
NonRetryableMutant == {404}
\* if e.response.status_code in [404, 403, 401]
NON_RETRYABLE == {404, 403, 401}

\* The statuses of the responses raise_for_status turns into HTTPStatusError
ErrorStatus == {401, 403, 404, 500}

\* "\n\n---\n\n"
SEPARATOR == <<"\n", "\n", "-", "-", "-", "\n", "\n">>

-----------------------------------------------------------------------------
(* Python values *)

PyNone == [kind |-> "None"]
Text(t) == [kind |-> "text", text |-> t]
Exc(type, msg) == [kind |-> "exc", type |-> type, msg |-> msg]

\* bool(x) of a str | None
Truthy(x) == x.kind = "text" /\ x.text # <<>>

EmptyDict == [k \in {} |-> PyNone]

\* d[k] = v
DictSet(d, k, v) == [x \in (DOMAIN d) \cup {k} |-> IF x = k THEN v ELSE d[x]]

\* source.get(key, default)
Get(d, key, default) == IF key \in DOMAIN d THEN d[key] ELSE default

RECURSIVE Pow2(_)
Pow2(n) == IF n = 0 THEN 1 ELSE 2 * Pow2(n - 1)

RECURSIVE Join(_, _)
\* sep.join(parts)
Join(sep, parts) ==
    IF parts = <<>> THEN <<>>
    ELSE IF Len(parts) = 1 THEN parts[1]
    ELSE parts[1] \o sep \o Join(sep, Tail(parts))

-----------------------------------------------------------------------------
(* parsers.py.  A text is a sequence of tokens.  A token is one character,   *)
(* or the text of a whole unit that the libraries behind the parsers treat   *)
(* as one: an HTML element, a JSON or XML document, a literal of the output. *)
(* What BeautifulSoup, markdownify, json and lxml make of a token is         *)
(* tabulated for the tokens of the payloads below.  An HTML payload is a     *)
(* sequence of sibling nodes with no main, article or body element around    *)
(* them, so main_content is the whole soup; its elements are headings,       *)
(* paragraphs and rules, which have no class, no id and no div, section or   *)
(* article above them, so of _remove_deprecated_sections only the loop over  *)
(* the headings changes anything.                                            *)

\* soup.find_all(["script", "style", "nav", "header", "footer", "aside"])
UNWANTED == {"<script>", "<style>", "<nav>", "<header>", "<footer>", "<aside>"}

WHITESPACE == {" ", "\n", "\t"}

\* The elements of the HTML payloads: tag name and get_text()
Elements == {
    [token |-> "<h1>Legacy API</h1>",         name |-> "h1", text |-> "Legacy API"],
    [token |-> "<h2>Deprecated Feature</h2>", name |-> "h2", text |-> "Deprecated Feature"],
    [token |-> "<h2>Next Section</h2>",       name |-> "h2", text |-> "Next Section"],
    [token |-> "<h3>Details</h3>",            name |-> "h3", text |-> "Details"],
    [token |-> "<p>x</p>",                    name |-> "p",  text |-> "x"],
    [token |-> "<hr>",                        name |-> "hr", text |-> ""] }

IsElement(tok) == \E e \in Elements : e.token = tok
ElementOf(tok) == CHOOSE e \in Elements : e.token = tok

\* node.name: None ("") for a text node
NodeName(tok) == IF IsElement(tok) THEN ElementOf(tok).name ELSE ""

\* ["h1", "h2", "h3", "h4", "h5", "h6"]
HEADINGS == {"h1", "h2", "h3", "h4", "h5", "h6"}

\* re.compile(r"deprecat" | r"legacy" | r"obsolete", re.IGNORECASE), in the
\* order of deprecated_patterns
deprecated_patterns == <<"deprecat", "legacy", "obsolete">>

\* pattern.search(text), for the texts of Elements
PatternSearch(pattern, text) ==
    \/ pattern = "deprecat" /\ text = "Deprecated Feature"
    \/ pattern = "legacy" /\ text = "Legacy API"

\* int(name[1]): the digit of h1..h6; ValueError for any other second
\* character ("hr": int("r"))
IntOfSecondChar(name) ==
    CASE name = "h1" -> [kind |-> "int", val |-> 1]
      [] name = "h2" -> [kind |-> "int", val |-> 2]
      [] name = "h3" -> [kind |-> "int", val |-> 3]
      [] name = "h4" -> [kind |-> "int", val |-> 4]
      [] name = "h5" -> [kind |-> "int", val |-> 5]
      [] name = "h6" -> [kind |-> "int", val |-> 6]
      [] OTHER -> Exc("ValueError", <<"invalid literal for int() with base 10">>)

\* sibling.name and sibling.name.startswith("h")
StartsWithH(name) == name \in HEADINGS \cup {"hr"}

\* The lengths of the tokens that are longer than one character
LongTokens == {
    [token |-> "<script>", len |-> 17],
    [token |-> "Legacy API", len |-> 10],
    [token |-> "Deprecated Feature", len |-> 18],
    [token |-> "Next Section", len |-> 12],
    [token |-> "Details", len |-> 7],
    [token |-> "---", len |-> 3],
    [token |-> "<h1>Legacy API</h1>", len |-> 19],
    [token |-> "<h2>Deprecated Feature</h2>", len |-> 27],
    [token |-> "<h2>Next Section</h2>", len |-> 21],
    [token |-> "<h3>Details</h3>", len |-> 16],
    [token |-> "<p>x</p>", len |-> 8],
    [token |-> "<hr>", len |-> 4],
    [token |-> "{\"description\": \"d\", \"properties\": {\"p\": {\"description\": \"e\", \"type\": \"s\"}, \"q\": {\"type\": \"s\"}}, \"required\": [\"p\"]}", len |-> 115],
    [token |-> "{\"properties\": {\"q\": true, \"p\": {}}, \"required\": [\"q\", \"p\"]}", len |-> 60],
    [token |-> "{\"properties\": {\"p\": {\"type\": \"s\"}}}", len |-> 36],
    [token |-> "{\"properties\": {\"p\": \"s\", \"q\": {}}, \"required\": [\"p\"]}", len |-> 54],
    [token |-> "{\"description\": \"d\"}", len |-> 20],
    [token |-> "[1]", len |-> 3],
    [token |-> "[\"properties\"]", len |-> 14],
    [token |-> "{\"properties\": [\"p\"]}", len |-> 21],
    [token |-> "{\"properties\": {\"p\": {}}, \"required\": 5}", len |-> 40],
    [token |-> "{\"p\"", len |-> 4],
    [token |-> "Expecting ':' delimiter: line 1 column 5 (char 4)", len |-> 49],
    [token |-> "Expecting value: line 1 column 1 (char 0)", len |-> 41],
    [token |-> "# Gear Manifest JSON Schema", len |-> 27],
    [token |-> "## Properties", len |-> 13],
    [token |-> "### ", len |-> 4],
    [token |-> "- **Type:** ", len |-> 12],
    [token |-> "- **Required:** Yes", len |-> 19],
    [token |-> "## Full Schema (JSON)", len |-> 21],
    [token |-> "json", len |-> 4],
    [token |-> "true", len |-> 4],
    [token |-> "false", len |-> 5],
    [token |-> "null", len |-> 4],
    [token |-> "None", len |-> 4],
    [token |-> "True", len |-> 4],
    [token |-> "False", len |-> 5],
    [token |-> "{}", len |-> 2],
    [token |-> "[]", len |-> 2],
    [token |-> "description", len |-> 11],
    [token |-> "properties", len |-> 10],
    [token |-> "required", len |-> 8],
    [token |-> "type", len |-> 4],
    [token |-> "# Error Parsing JSON Schema", len |-> 27],
    [token |-> "Failed to parse JSON: ", len |-> 22],
    [token |-> "# DICOM Standard Documentation", len |-> 30],
    [token |-> "<a>x</a>", len |-> 8],
    [token |-> "<a>x", len |-> 4] }

\* len(token)
CharLen(tok) ==
    IF \E e \in LongTokens : e.token = tok
    THEN (CHOOSE e \in LongTokens : e.token = tok).len
    ELSE 1

RECURSIVE LenOfTokens(_, _, _)
\* The sum of the lengths of the tokens lo..hi of a text
LenOfTokens(text, lo, hi) ==
    IF lo > hi THEN 0
    ELSE IF lo = hi THEN CharLen(text[lo])
    ELSE LET mid == (lo + hi) \div 2 IN
         LenOfTokens(text, lo, mid) + LenOfTokens(text, mid + 1, hi)

\* len(text)
PyLen(text) == LenOfTokens(text, 1, Len(text))

RECURSIVE Decompose(_)
\* for element in soup.find_all([...]): element.decompose()
Decompose(content) ==
    IF content = <<>> THEN <<>>
    ELSE IF content[1] \in UNWANTED THEN Decompose(Tail(content))
    ELSE <<content[1]>> \o Decompose(Tail(content))

RECURSIVE RemoveSiblings(_, _, _, _)
\* The loop of _remove_section over list(heading.next_siblings), from node j
\* on: alive is the set of the positions still in the tree
RemoveSiblings(nodes, level, j, alive) ==
    IF j > Len(nodes) THEN [kind |-> "alive", alive |-> alive]
    ELSE IF j \notin alive THEN RemoveSiblings(nodes, level, j + 1, alive)
    ELSE LET name == NodeName(nodes[j])
             sibling_level == IntOfSecondChar(name)
         IN  IF StartsWithH(name) /\ sibling_level.kind = "exc" THEN sibling_level
             ELSE IF StartsWithH(name) /\ sibling_level.val <= level
             THEN [kind |-> "alive", alive |-> alive]
             ELSE RemoveSiblings(nodes, level, j + 1, alive \ {j})

\* heading.decompose() at the end of _remove_section, unless the loop raised
DecomposeHeading(removed, h) ==
    IF removed.kind = "exc" THEN removed
    ELSE [kind |-> "alive", alive |-> removed.alive \ {h}]

\* _remove_section(heading), for the heading at position h
_remove_section(nodes, h, alive) ==
    DecomposeHeading(
        RemoveSiblings(nodes, IntOfSecondChar(NodeName(nodes[h])).val, h + 1, alive), h)

RECURSIVE RemoveHeadings(_, _, _, _)
\* for heading in soup.find_all([...]): if pattern.search(heading.get_text()):
\* _remove_section(heading), from position h on; removed is the tree so far,
\* or the exception that ended the loop; a heading that an earlier
\* _remove_section took out of the tree has no text left and matches nothing
RemoveHeadings(nodes, pattern, h, removed) ==
    IF removed.kind = "exc" \/ h > Len(nodes) THEN removed
    ELSE IF /\ h \in removed.alive
            /\ NodeName(nodes[h]) \in HEADINGS
            /\ PatternSearch(pattern, ElementOf(nodes[h]).text)
    THEN RemoveHeadings(nodes, pattern, h + 1, _remove_section(nodes, h, removed.alive))
    ELSE RemoveHeadings(nodes, pattern, h + 1, removed)

RECURSIVE RemovePatterns(_, _, _)
\* for pattern in deprecated_patterns, from pattern p on
RemovePatterns(nodes, p, removed) ==
    IF removed.kind = "exc" \/ p > Len(deprecated_patterns) THEN removed
    ELSE RemovePatterns(nodes, p + 1,
                        RemoveHeadings(nodes, deprecated_patterns[p], 1, removed))

RECURSIVE Keep(_, _, _)
\* The nodes at the positions of alive, from position j on, in their order
Keep(nodes, alive, j) ==
    IF j > Len(nodes) THEN <<>>
    ELSE (IF j \in alive THEN <<nodes[j]>> ELSE <<>>) \o Keep(nodes, alive, j + 1)

\* The soup with the nodes that are left in the tree
Kept(soup, removed) ==
    IF removed.kind = "exc" THEN removed
    ELSE [kind |-> "soup", nodes |-> Keep(soup, removed.alive, 1)]

\* _remove_deprecated_sections(soup): the soup that is left, or the exception
_remove_deprecated_sections(soup) ==
    Kept(soup, RemovePatterns(soup, 1, [kind |-> "alive", alive |-> DOMAIN soup]))

RECURSIVE Hashes(_)
Hashes(n) == IF n = 0 THEN <<>> ELSE <<"#">> \o Hashes(n - 1)

\* markdownify's conversion of one node (heading_style="ATX"): a heading, a
\* paragraph and a rule are set off by blank lines, a character stays
ConvertNode(tok) ==
    IF ~IsElement(tok) THEN <<tok>>
    ELSE LET e == ElementOf(tok) IN
         <<"\n", "\n">>
         \o (IF e.name \in HEADINGS
             THEN Hashes(IntOfSecondChar(e.name).val) \o <<" ", e.text>>
             ELSE IF e.name = "hr" THEN <<"---">>
             ELSE <<e.text>>)
         \o <<"\n", "\n">>

RECURSIVE md(_)
\* md(str(main_content), heading_style="ATX", bullets="-")
md(nodes) == IF nodes = <<>> THEN <<>> ELSE ConvertNode(nodes[1]) \o md(Tail(nodes))

RECURSIVE SpaceRun(_)
\* The length of the run of whitespace a text starts with
SpaceRun(text) ==
    IF text # <<>> /\ text[1] \in WHITESPACE THEN 1 + SpaceRun(Tail(text)) ELSE 0

RECURSIVE Collapse(_)
\* re.sub(r"\n\s*\n\s*\n+", "\n\n", markdown): a run of whitespace that
\* starts with a newline and holds three newlines or more is cut down, up to
\* its last newline, to two newlines
Collapse(text) ==
    IF text = <<>> THEN <<>>
    ELSE IF text[1] # "\n" THEN <<text[1]>> \o Collapse(Tail(text))
    ELSE LET run == SpaceRun(text)
             newlines == {j \in 1..run : text[j] = "\n"}
             last == CHOOSE j \in newlines : \A k \in newlines : k <= j
         IN  IF Cardinality(newlines) >= 3
             THEN <<"\n", "\n">> \o Collapse(SubSeq(text, last + 1, Len(text)))
             ELSE <<"\n">> \o Collapse(Tail(text))

RECURSIVE LStrip(_)
LStrip(text) ==
    IF text # <<>> /\ text[1] \in WHITESPACE THEN LStrip(Tail(text)) ELSE text

RECURSIVE RStrip(_)
RStrip(text) ==
    IF text # <<>> /\ text[Len(text)] \in WHITESPACE
    THEN RStrip(SubSeq(text, 1, Len(text) - 1))
    ELSE text

\* markdown.strip()
Strip(text) == RStrip(LStrip(text))

\* parse_html from "Convert to markdown" on
Markdown(main_content) ==
    IF main_content.kind = "exc" THEN main_content
    ELSE Text(Strip(Collapse(md(main_content.nodes))))

\* parse_html(content, url, strip_deprecated)
parse_html(content, url, strip_deprecated) ==
    Markdown(IF strip_deprecated THEN _remove_deprecated_sections(Decompose(content))
             ELSE [kind |-> "soup", nodes |-> Decompose(content)])

\* parse_gitlab_repo(content, strip_deprecated)
parse_gitlab_repo(content, strip_deprecated) == parse_html(content, <<>>, strip_deprecated)

-----------------------------------------------------------------------------
(* parsers.parse_json_schema and parsers.parse_xml.  A JSON value is a       *)
(* record of its type t, the key k it has in the object it is a member of,   *)
(* its text s (a string, a number, a literal) and its members or elements    *)
(* items, in the order of the document.                                      *)

JObject(k, items) == [t |-> "object", k |-> k, s |-> "", items |-> items]
JArray(k, items) == [t |-> "array", k |-> k, s |-> "", items |-> items]
JString(k, s) == [t |-> "string", k |-> k, s |-> s, items |-> <<>>]
JNumber(k, s) == [t |-> "number", k |-> k, s |-> s, items |-> <<>>]
JLiteral(k, s) == [t |-> "literal", k |-> k, s |-> s, items |-> <<>>]
JDecodeError(msg) == [t |-> "JSONDecodeError", k |-> "", s |-> msg, items |-> <<>>]

\* The JSON payloads, each one token, and what json.loads makes of them
JsonDocuments == {
    [text |-> "{\"description\": \"d\", \"properties\": {\"p\": {\"description\": \"e\", \"type\": \"s\"}, \"q\": {\"type\": \"s\"}}, \"required\": [\"p\"]}",
     value |-> JObject("", <<JString("description", "d"), JObject("properties", <<JObject("p", <<JString("description", "e"), JString("type", "s")>>), JObject("q", <<JString("type", "s")>>)>>), JArray("required", <<JString("", "p")>>)>>)],
    [text |-> "{\"properties\": {\"q\": true, \"p\": {}}, \"required\": [\"q\", \"p\"]}",
     value |-> JObject("", <<JObject("properties", <<JLiteral("q", "true"), JObject("p", <<>>)>>), JArray("required", <<JString("", "q"), JString("", "p")>>)>>)],
    [text |-> "{\"properties\": {\"p\": {\"type\": \"s\"}}}",
     value |-> JObject("", <<JObject("properties", <<JObject("p", <<JString("type", "s")>>)>>)>>)],
    [text |-> "{\"properties\": {\"p\": \"s\", \"q\": {}}, \"required\": [\"p\"]}",
     value |-> JObject("", <<JObject("properties", <<JString("p", "s"), JObject("q", <<>>)>>), JArray("required", <<JString("", "p")>>)>>)],
    [text |-> "{\"description\": \"d\"}",
     value |-> JObject("", <<JString("description", "d")>>)],
    [text |-> "[1]",
     value |-> JArray("", <<JNumber("", "1")>>)],
    [text |-> "5",
     value |-> JNumber("", "5")],
    [text |-> "null",
     value |-> JLiteral("", "null")],
    [text |-> "[\"properties\"]",
     value |-> JArray("", <<JString("", "properties")>>)],
    [text |-> "{\"properties\": [\"p\"]}",
     value |-> JObject("", <<JArray("properties", <<JString("", "p")>>)>>)],
    [text |-> "{\"properties\": {\"p\": {}}, \"required\": 5}",
     value |-> JObject("", <<JObject("properties", <<JObject("p", <<>>)>>), JNumber("required", "5")>>)],
    [text |-> "{\"p\"",
     value |-> JDecodeError("Expecting ':' delimiter: line 1 column 5 (char 4)")] }

\* json.loads(content): any other payload of the model starts with a
\* character no JSON value starts with
json_loads(content) ==
    IF Len(content) = 1 /\ \E d \in JsonDocuments : d.text = content[1]
    THEN (CHOOSE d \in JsonDocuments : d.text = content[1]).value
    ELSE JDecodeError("Expecting value: line 1 column 1 (char 0)")

\* a in b for two strings of the documents: b holds a
Substring(a, b) ==
    \/ a = b
    \/ b = "properties" /\ a \in {"p", "e", "s"}
    \/ b = "description" /\ a \in {"d", "e", "s", "p"}
    \/ b = "required" /\ a \in {"e", "q", "d"}
    \/ b = "type" /\ a \in {"p", "e"}

\* key in data: a key of a dict, an element of a list, a part of a str;
\* TypeError for a number, a bool and None
PyIn(key, data) ==
    CASE data.t = "object" ->
             [kind |-> "bool", val |-> \E i \in DOMAIN data.items : data.items[i].k = key]
      [] data.t = "array" ->
             [kind |-> "bool",
              val |-> \E i \in DOMAIN data.items :
                          data.items[i].t = "string" /\ data.items[i].s = key]
      [] data.t = "string" -> [kind |-> "bool", val |-> Substring(key, data.s)]
      [] OTHER -> Exc("TypeError", <<"argument of type is not iterable">>)

\* data[key], key a str: the member of a dict; TypeError for a list and a str
GetItem(data, key) ==
    IF data.t = "object"
    THEN [kind |-> "value",
          val |-> data.items[CHOOSE i \in DOMAIN data.items : data.items[i].k = key]]
    ELSE Exc("TypeError", <<"indices must be integers">>)

RECURSIVE Repr(_)
RECURSIVE ReprItems(_, _)
\* repr(value)
Repr(v) ==
    CASE v.t = "string" -> <<"'", v.s, "'">>
      [] v.t = "number" -> <<v.s>>
      [] v.t = "literal" ->
             <<IF v.s = "true" THEN "True" ELSE IF v.s = "false" THEN "False" ELSE "None">>
      [] v.t = "array" -> <<"[">> \o ReprItems(v, 1) \o <<"]">>
      [] OTHER -> <<"{">> \o ReprItems(v, 1) \o <<"}">>

ReprItems(v, i) ==
    IF i > Len(v.items) THEN <<>>
    ELSE (IF v.t = "object" THEN <<"'", v.items[i].k, "'", ":", " ">> ELSE <<>>)
         \o Repr(v.items[i])
         \o (IF i < Len(v.items) THEN <<",", " ">> ELSE <<>>)
         \o ReprItems(v, i + 1)

\* f"{value}"
PyStr(v) == IF v.t = "string" THEN <<v.s>> ELSE Repr(v)

RECURSIVE Spaces(_)
Spaces(n) == IF n = 0 THEN <<>> ELSE <<" ">> \o Spaces(n - 1)

RECURSIVE Dumps(_, _)
RECURSIVE DumpItems(_, _, _)
\* json.dumps(v, indent=2), at the indentation ind
Dumps(v, ind) ==
    CASE v.t = "string" -> <<"\"", v.s, "\"">>
      [] v.t \in {"number", "literal"} -> <<v.s>>
      [] OTHER ->
             IF v.items = <<>> THEN <<IF v.t = "array" THEN "[]" ELSE "{}">>
             ELSE <<IF v.t = "array" THEN "[" ELSE "{", "\n">>
                  \o DumpItems(v, 1, ind + 2)
                  \o <<"\n">> \o Spaces(ind) \o <<IF v.t = "array" THEN "]" ELSE "}">>

DumpItems(v, i, ind) ==
    Spaces(ind)
    \o (IF v.t = "object" THEN <<"\"", v.items[i].k, "\"", ":", " ">> ELSE <<>>)
    \o Dumps(v.items[i], ind)
    \o (IF i < Len(v.items) THEN <<",", "\n">> \o DumpItems(v, i + 1, ind) ELSE <<>>)

\* The token of the character U+0060 of the output
BACKTICK == "<backtick>"

\* The body of the loop over data["properties"].items(): the lines of one
\* property, or the exception
PropertyLines(data, prop_name, prop_def) ==
    LET heading == <<"### ", BACKTICK, prop_name, BACKTICK>> IN
    IF prop_def.t # "object"
    THEN [kind |-> "lines", lines |-> <<heading, <<>> >>]
    ELSE LET description == IF PyIn("description", prop_def).val
                            THEN <<PyStr(GetItem(prop_def, "description").val)>> ELSE <<>>
             type == IF PyIn("type", prop_def).val
                     THEN << <<"- **Type:** ", BACKTICK>>
                             \o PyStr(GetItem(prop_def, "type").val) \o <<BACKTICK>> >>
                     ELSE <<>>
             listed == IF PyIn("required", data).val
                       THEN PyIn(prop_name, GetItem(data, "required").val)
                       ELSE [kind |-> "bool", val |-> FALSE]
         IN  IF listed.kind = "exc" THEN listed
             ELSE [kind |-> "lines",
                   lines |-> <<heading>> \o description \o type
                             \o (IF listed.val THEN << <<"- **Required:** Yes">> >> ELSE <<>>)
                             \o << <<>> >>]

RECURSIVE PropertiesLines(_, _, _)
\* for prop_name, prop_def in data["properties"].items(), from member i on
PropertiesLines(data, properties, i) ==
    IF i > Len(properties.items) THEN [kind |-> "lines", lines |-> <<>>]
    ELSE LET first == PropertyLines(data, properties.items[i].k, properties.items[i]) IN
         IF first.kind = "exc" THEN first
         ELSE LET rest == PropertiesLines(data, properties, i + 1) IN
              IF rest.kind = "exc" THEN rest
              ELSE [kind |-> "lines", lines |-> first.lines \o rest.lines]

\* parse_json_schema from 'if "description" in data' to the end of the loop
\* over the properties: the lines appended to output, or the exception
SchemaLines(data) ==
    LET has_description == PyIn("description", data) IN
    IF has_description.kind = "exc" THEN has_description
    ELSE LET description == IF has_description.val THEN GetItem(data, "description")
                            ELSE [kind |-> "absent"]
         IN
         IF description.kind = "exc" THEN description
         ELSE LET head == IF has_description.val
                          THEN <<PyStr(description.val) \o <<"\n">> >> ELSE <<>>
                  has_properties == PyIn("properties", data).val
                  properties == IF has_properties THEN GetItem(data, "properties")
                                ELSE [kind |-> "absent"]
              IN
              IF ~has_properties THEN [kind |-> "lines", lines |-> head]
              ELSE IF properties.kind = "exc" THEN properties
              ELSE IF properties.val.t # "object"
              THEN Exc("AttributeError", <<"object has no attribute 'items'">>)
              ELSE LET props == PropertiesLines(data, properties.val, 1) IN
                   IF props.kind = "exc" THEN props
                   ELSE [kind |-> "lines",
                         lines |-> head \o << <<"## Properties", "\n">> >> \o props.lines]

\* parse_json_schema(content): only json.JSONDecodeError is caught
parse_json_schema(content) ==
    LET data == json_loads(content) IN
    IF data.t = "JSONDecodeError"
    THEN Text(<<"# Error Parsing JSON Schema", "\n", "\n", "Failed to parse JSON: ", data.s,
                "\n", "\n", BACKTICK, BACKTICK, BACKTICK, "\n">>
              \o content \o <<"\n", BACKTICK, BACKTICK, BACKTICK>>)
    ELSE LET body == SchemaLines(data) IN
         IF body.kind = "exc" THEN body
         ELSE Text(Join(<<"\n">>,
                        << <<"# Gear Manifest JSON Schema", "\n">> >>
                        \o body.lines
                        \o << <<"## Full Schema (JSON)", "\n">>,
                              <<BACKTICK, BACKTICK, BACKTICK, "json">>,
                              Dumps(data, 0),
                              <<BACKTICK, BACKTICK, BACKTICK>> >>))

\* The XML payloads, each one token: whether etree.fromstring parses them as
\* they are, and the text of the tree the parser (recovering, if need be) builds
XmlDocuments == {
    [text |-> "<a>x</a>", well_formed |-> TRUE, tree_text |-> <<"x">>],
    [text |-> "<a>x", well_formed |-> FALSE, tree_text |-> <<"x">>] }

\* etree.fromstring(content, parser=etree.XMLParser(recover=True)): the root,
\* or None for a text in which the parser finds no element at all
etree_fromstring_recover(content) ==
    IF Len(content) = 1 /\ \E d \in XmlDocuments : d.text = content[1]
    THEN [kind |-> "root",
          text |-> (CHOOSE d \in XmlDocuments : d.text = content[1]).tree_text]
    ELSE PyNone

\* parse_xml(content, filter_sections), filter_sections being None as no
\* source of the model has the key; etree.tostring(None, ...) raises TypeError
parse_xml(content, filter_sections) ==
    LET root == etree_fromstring_recover(content) IN
    IF root.kind = "None"
    THEN Exc("TypeError", <<"Type 'NoneType' cannot be serialized.">>)
    ELSE Text(Join(<<"\n">>, << <<"# DICOM Standard Documentation", "\n">>, root.text >>))

-----------------------------------------------------------------------------
\* The dispatch on doc_type of _fetch_source: the parsed text, or the
\* exception the normalizer raises
Normalize(doc_type, content, urls, strip_deprecated) ==
    IF doc_type = "html" THEN parse_html(content, urls[1], strip_deprecated)
    ELSE IF doc_type = "xml" THEN parse_xml(content, PyNone)
    ELSE IF doc_type = "json" THEN parse_json_schema(content)
    ELSE IF doc_type = "gitlab_repo" THEN parse_gitlab_repo(content, strip_deprecated)
    ELSE Text(content)

-----------------------------------------------------------------------------
(* The configuration file and the network *)

\* documentation_sources records of config.yaml
SrcText == [tool_name |-> "t1", display_name |-> "T1", description |-> "d1",
            urls |-> <<"u1">>, type |-> "text"]
SrcHtml == [tool_name |-> "t2", urls |-> <<"u4">>]
SrcThree == [tool_name |-> "t1", urls |-> <<"u1", "u2", "u3">>, type |-> "html",
             strip_deprecated |-> FALSE]
SrcRepo == [tool_name |-> "t2", display_name |-> "T2", urls |-> <<"u3">>,
            type |-> "gitlab_repo"]
SrcNoUrls == [tool_name |-> "t1", description |-> "d2"]
SrcNoName == [display_name |-> "T3", urls |-> <<"u1">>]

\* What yaml.safe_load(f).get("documentation_sources", []) can be
Configs == {
    <<SrcText, SrcHtml>>,
    <<SrcThree>>,
    <<SrcNoUrls, SrcNoName, SrcRepo>>,
    <<>> }

\* The file fetch_all_docs opens; in Spec it stays as it is from call to call
ConfigFiles ==
    {[exists |-> TRUE, sources |-> c] : c \in Configs}
    \cup {[exists |-> FALSE, sources |-> <<>>]}

\* The tool names a caller may ask for; "t9" is never configured
ToolNames == {"t1", "t9"}

\* The pages each URL can serve
Pages(url) ==
    CASE url = "u1" -> {<<"a">>}
      [] url = "u2" -> {<<"b">>}
      [] url = "u3" -> {<<"<script>", "c">>}
      [] OTHER -> {<<"c">>, <<"<script>">>}

\* What one client.get(url) followed by raise_for_status() can come to:
\* a 2xx response with its text, an HTTPStatusError, or a RequestError
\* (TimeoutException is a RequestError)
Responses(url) ==
    {[kind |-> "ok", body |-> b] : b \in {<<>>} \cup Pages(url)}
    \cup {[kind |-> "status", code |-> c] : c \in ErrorStatus}
    \cup {[kind |-> "error", type |-> t] : t \in {"ConnectTimeout"}}

\* The exception an attempt's failure raises
ErrorOf(resp) ==
    IF resp.kind = "status"
    THEN Exc("HTTPStatusError", <<"HTTP error ", IF resp.code = 500 THEN "500" ELSE "4xx">>)
    ELSE Exc(resp.type, <<resp.type>>)

-----------------------------------------------------------------------------
(* _fetch_source and _fetch_with_retry: one task per source of a cycle *)

Pending == [kind |-> "pending"]

\* A task that has not run yet; gets counts the calls of client.get the task
\* has made
NewTask == [pc |-> "start", i |-> 0, attempt |-> 0, log |-> <<>>, last |-> PyNone,
            ret |-> Pending, contents |-> <<>>, fetched |-> <<>>, result |-> Pending,
            gets |-> 0]

\* A task that has returned or raised: its locals are gone
Finished(task, result) ==
    [task EXCEPT !.pc = "done", !.i = 0, !.attempt = 0, !.log = <<>>, !.last = PyNone,
                 !.ret = Pending, !.contents = <<>>, !.result = result, !.gets = 0]

\* Variant: a delay of 2 * attempt
BackoffMutant(attempt) == 2 * attempt
\* asyncio.sleep(2**attempt)
Backoff(attempt) == Pow2(attempt)

\* Variant: the last attempt's failure is dropped and None is returned
FetchAttemptMutant(task, resp) ==
    LET t == [task EXCEPT !.log = Append(@, <<"get", task.attempt>>), !.last = resp,
                          !.gets = @ + 1] IN
    IF resp.kind = "ok"
    THEN [t EXCEPT !.pc = "ret", !.ret = Text(resp.body)]
    ELSE IF resp.kind = "status" /\ resp.code \in NON_RETRYABLE
    THEN [t EXCEPT !.pc = "ret", !.ret = PyNone]
    ELSE IF task.attempt < max_retries - 1
    THEN [t EXCEPT !.pc = "sleep", !.log = Append(@, <<"sleep", Backoff(task.attempt)>>)]
    ELSE [t EXCEPT !.pc = "ret", !.ret = PyNone]

\* Variant: for attempt in range(max_retries + 1)
FetchAttemptOnceMoreMutant(task, resp) ==
    LET t == [task EXCEPT !.log = Append(@, <<"get", task.attempt>>), !.last = resp,
                          !.gets = @ + 1] IN
    IF resp.kind = "ok"
    THEN [t EXCEPT !.pc = "ret", !.ret = Text(resp.body)]
    ELSE IF resp.kind = "status" /\ resp.code \in NON_RETRYABLE
    THEN [t EXCEPT !.pc = "ret", !.ret = PyNone]
    ELSE IF task.attempt < max_retries
    THEN [t EXCEPT !.pc = "sleep", !.log = Append(@, <<"sleep", Backoff(task.attempt)>>)]
    ELSE [t EXCEPT !.pc = "ret", !.ret = ErrorOf(resp)]

\* One iteration of the retry loop from client.get on: the attempt ends with
\* response resp.  The log keeps the network attempts and the delays of this fetch.
FetchAttempt(task, resp) ==
    LET t == [task EXCEPT !.log = Append(@, <<"get", task.attempt>>), !.last = resp,
                          !.gets = @ + 1] IN
    IF resp.kind = "ok"
    THEN [t EXCEPT !.pc = "ret", !.ret = Text(resp.body)]
    ELSE IF resp.kind = "status" /\ resp.code \in NON_RETRYABLE
    THEN [t EXCEPT !.pc = "ret", !.ret = PyNone]
    ELSE IF task.attempt < max_retries - 1
    THEN [t EXCEPT !.pc = "sleep", !.log = Append(@, <<"sleep", Backoff(task.attempt)>>)]
    ELSE [t EXCEPT !.pc = "ret", !.ret = ErrorOf(resp)]

\* asyncio.sleep returns: the next iteration of the retry loop
AfterSleep(task) == [task EXCEPT !.pc = "get", !.attempt = @ + 1]

\* Variant: contents.insert(0, content)
AppendContentMutant(contents, content) == <<content>> \o contents
\* contents.append(content)
AppendContent(contents, content) == Append(contents, content)

\* The parsed texts with one more in front, or the first exception
ConsParsed(parsed, rest) ==
    IF parsed.kind = "exc" THEN parsed
    ELSE IF rest.kind = "exc" THEN rest
    ELSE [kind |-> "list", parts |-> <<parsed.text>> \o rest.parts]

RECURSIVE ParseAll(_, _, _, _)
\* for content in contents: parsed_contents.append(parsed), up to the first
\* exception a normalizer raises
ParseAll(contents, doc_type, urls, strip_deprecated) ==
    IF contents = <<>> THEN [kind |-> "list", parts |-> <<>>]
    ELSE ConsParsed(Normalize(doc_type, contents[1], urls, strip_deprecated),
                    ParseAll(Tail(contents), doc_type, urls, strip_deprecated))

\* _fetch_source from the join of the parsed contents to its return
Document(source, combined_content, clock) ==
    [kind |-> "doc",
     doc |-> [content |-> combined_content,
              display_name |-> Get(source, "display_name", source.tool_name),
              description |-> Get(source, "description", ""),
              urls |-> Get(source, "urls", <<>>),
              fetched_at |-> clock,
              size |-> PyLen(combined_content)]]

\* _fetch_source after the loop over contents; combined_content is bound to
\* the joined text, which is computed once
Combine(source, parsed, clock) ==
    IF parsed.kind = "exc" THEN parsed
    ELSE CHOOSE doc \in {Document(source, combined_content, clock) :
                             combined_content \in {Join(SEPARATOR, parsed.parts)}} : TRUE

\* _fetch_source from "if not contents" to its return
Aggregate(source, contents, clock) ==
    IF contents = <<>>
    THEN Exc("ValueError", <<"No content fetched for ", source.tool_name>>)
    ELSE Combine(source,
                 ParseAll(contents, Get(source, "type", "html"), Get(source, "urls", <<>>),
                          Get(source, "strip_deprecated", TRUE)),
                 clock)

\* _fetch_source up to its first client.get
SourceStart(task, source, clock) ==
    IF "tool_name" \notin DOMAIN source
    THEN Finished(task, Exc("KeyError", <<"'tool_name'">>))
    ELSE IF Get(source, "urls", <<>>) = <<>>
    THEN Finished(task, Aggregate(source, <<>>, clock))
    ELSE [task EXCEPT !.pc = "get", !.i = 1]

\* Variant: an exception of _fetch_with_retry is caught and the loop goes on
SourceResumeMutant(task, source, clock) ==
    LET urls == Get(source, "urls", <<>>)
        content == task.ret
        contents == IF Truthy(content) THEN AppendContent(task.contents, content.text)
                    ELSE task.contents
        fetched == Append(task.fetched, content)
    IN  IF task.i < Len(urls)
        THEN [task EXCEPT !.pc = "get", !.i = @ + 1, !.attempt = 0, !.log = <<>>,
                          !.last = PyNone, !.ret = Pending,
                          !.contents = contents, !.fetched = fetched]
        ELSE Finished([task EXCEPT !.fetched = fetched], Aggregate(source, contents, clock))

\* _fetch_source from the return of _fetch_with_retry to the next client.get,
\* or to its own end
SourceResume(task, source, clock) ==
    LET urls == Get(source, "urls", <<>>)
        content == task.ret
        contents == IF Truthy(content) THEN AppendContent(task.contents, content.text)
                    ELSE task.contents
        fetched == Append(task.fetched, content)
    IN  IF content.kind = "exc"
        THEN Finished([task EXCEPT !.fetched = fetched], content)
        ELSE IF task.i < Len(urls)
        THEN [task EXCEPT !.pc = "get", !.i = @ + 1, !.attempt = 0, !.log = <<>>,
                          !.last = PyNone, !.ret = Pending,
                          !.contents = contents, !.fetched = fetched]
        ELSE Finished([task EXCEPT !.fetched = fetched], Aggregate(source, contents, clock))

-----------------------------------------------------------------------------
(* fetch_all_docs *)

\* The placeholder fetch_all_docs stores for a source whose task raised
Placeholder(source, result, clock) ==
    [content |-> <<"# Error\n\nFailed to fetch documentation: ">> \o result.msg,
     display_name |-> Get(source, "display_name", source.tool_name),
     description |-> Get(source, "description", ""),
     urls |-> Get(source, "urls", <<>>),
     fetched_at |-> clock,
     size |-> 0,
     error |-> result.msg]

\* Variant: the placeholder's size is the length of the message
CacheEntryMutant(source, result, clock) ==
    IF result.kind = "exc"
    THEN [Placeholder(source, result, clock) EXCEPT !.size = PyLen(result.msg)]
    ELSE result.doc
\* The value stored under tool_name: isinstance(result, Exception) or not
CacheEntry(source, result, clock) ==
    IF result.kind = "exc" THEN Placeholder(source, result, clock) ELSE result.doc

RECURSIVE BuildCacheMutant(_, _, _, _, _)
\* Variant: a source whose task raised gets no entry
BuildCacheMutant(sources, results, i, cache, clock) ==
    IF i > Len(sources) THEN [cache |-> cache, raised |-> FALSE]
    ELSE IF "tool_name" \notin DOMAIN sources[i] THEN [cache |-> cache, raised |-> TRUE]
    ELSE BuildCacheMutant(sources, results, i + 1,
                          IF results[i].kind = "exc" THEN cache
                          ELSE DictSet(cache, sources[i].tool_name, results[i].doc),
                          clock)

RECURSIVE BuildCache(_, _, _, _, _)
\* for source, result in zip(sources, results), from pair i on, on the dict
\* bound to _docs_cache; source["tool_name"] raises KeyError and leaves the
\* dict as the earlier iterations made it
BuildCache(sources, results, i, cache, clock) ==
    IF i > Len(sources) THEN [cache |-> cache, raised |-> FALSE]
    ELSE IF "tool_name" \notin DOMAIN sources[i] THEN [cache |-> cache, raised |-> TRUE]
    ELSE BuildCache(sources, results, i + 1,
                    DictSet(cache, sources[i].tool_name,
                            CacheEntry(sources[i], results[i], clock)),
                    clock)

IdleCycle == [pc |-> "idle", sources |-> <<>>, tasks |-> <<>>, results |-> <<>>,
              ret |-> EmptyDict]

InFlight(c) == cyc[c].pc = "gather"

\* What is left of a call once its caller makes the next one
Returned(cycle) == [IdleCycle EXCEPT !.pc = cycle.pc]

\* The caller awaits each call of fetch_all_docs before it makes the next
MayCall(c) ==
    /\ cyc[c].pc = "idle"
    /\ \A d \in Cycles : (d < c => cyc[d].pc \in {"done", "aborted"})

\* A call of fetch_all_docs up to "await asyncio.gather": the configuration is
\* read and one task per source is created
FetchAllDocs(c) ==
    /\ MayCall(c)
    /\ config_file.exists
    /\ cyc' = [d \in Cycles |->
                 IF d = c
                 THEN [IdleCycle EXCEPT !.pc = "gather", !.sources = config_file.sources,
                                        !.tasks = [s \in 1..Len(config_file.sources) |-> NewTask]]
                 ELSE Returned(cyc[d])]
    /\ now' = now + 1
    /\ UNCHANGED <<docs_cache, published, config_file, response>>
    /\ UNCHANGED <<parsing, server_vars, heap_vars>>

\* A call of fetch_all_docs whose open(config_path) raises
FetchAllDocsNoConfig(c) ==
    /\ MayCall(c)
    /\ ~config_file.exists
    /\ cyc' = [d \in Cycles |->
                 IF d = c THEN [IdleCycle EXCEPT !.pc = "aborted"] ELSE Returned(cyc[d])]
    /\ now' = now + 1
    /\ UNCHANGED <<docs_cache, published, config_file, response>>
    /\ UNCHANGED <<parsing, server_vars, heap_vars>>

SetTask(c, s, task) == cyc' = [cyc EXCEPT ![c].tasks[s] = task]

\* A task of gather starts to run
StartSource(c, s) ==
    /\ InFlight(c)
    /\ cyc[c].tasks[s].pc = "start"
    /\ SetTask(c, s, SourceStart(cyc[c].tasks[s], cyc[c].sources[s], now))
    /\ UNCHANGED <<docs_cache, now, published, config_file, response>>
    /\ UNCHANGED <<parsing, server_vars, heap_vars>>

\* await client.get(url) completes, with any response the network can give
ClientGet(c, s) ==
    /\ InFlight(c)
    /\ cyc[c].tasks[s].pc = "get"
    /\ \E resp \in Responses(cyc[c].sources[s].urls[cyc[c].tasks[s].i]) :
           SetTask(c, s, FetchAttempt(cyc[c].tasks[s], resp))
    /\ UNCHANGED <<docs_cache, now, published, config_file, response>>
    /\ UNCHANGED <<parsing, server_vars, heap_vars>>

\* await asyncio.sleep(...) completes
SleepDone(c, s) ==
    /\ InFlight(c)
    /\ cyc[c].tasks[s].pc = "sleep"
    /\ SetTask(c, s, AfterSleep(cyc[c].tasks[s]))
    /\ UNCHANGED <<docs_cache, now, published, config_file, response>>
    /\ UNCHANGED <<parsing, server_vars, heap_vars>>

\* _fetch_with_retry has returned or raised; _fetch_source goes on
ResumeSource(c, s) ==
    /\ InFlight(c)
    /\ cyc[c].tasks[s].pc = "ret"
    /\ SetTask(c, s, SourceResume(cyc[c].tasks[s], cyc[c].sources[s], now))
    /\ UNCHANGED <<docs_cache, now, published, config_file, response>>
    /\ UNCHANGED <<parsing, server_vars, heap_vars>>

\* fetch_all_docs from "_docs_cache = {}" to its return, or to the KeyError
\* that ends it, once gather has every result
PublishCycle(c) ==
    LET results == [s \in 1..Len(cyc[c].tasks) |-> cyc[c].tasks[s].result]
        built == BuildCache(cyc[c].sources, results, 1, EmptyDict, now)
    IN  /\ docs_cache' = built.cache
        /\ published' = IF built.raised THEN published ELSE built.cache
        /\ cyc' = [cyc EXCEPT ![c] = [pc |-> IF built.raised THEN "aborted" ELSE "done",
                                      sources |-> cyc[c].sources,
                                      tasks |-> <<>>,
                                      results |-> results,
                                      ret |-> IF built.raised THEN EmptyDict ELSE built.cache]]

\* gather has every result and fetch_all_docs runs to its end
Publish(c) ==
    /\ InFlight(c)
    /\ \A s \in 1..Len(cyc[c].tasks) : cyc[c].tasks[s].pc = "done"
    /\ PublishCycle(c)
    /\ UNCHANGED <<now, config_file, response>>
    /\ UNCHANGED <<parsing, server_vars, heap_vars>>

-----------------------------------------------------------------------------
(* The read side: fetcher.get_cached_doc, fetcher.get_all_cached_docs and    *)
(* tools.execute_tool, tools.execute_list_docs_tool.  A returned text is a   *)
(* sequence of lines, each a record of the line's kind and what it shows.    *)

\* return _docs_cache.get(tool_name)
get_cached_doc(tool_name) ==
    IF tool_name \in DOMAIN docs_cache THEN docs_cache[tool_name] ELSE PyNone

\* return _docs_cache.copy()
get_all_cached_docs == [k \in DOMAIN docs_cache |-> docs_cache[k]]

Line(kind, arg) == [line |-> kind, arg |-> arg]

\* f"{size / 1024:.1f}": tenths of a KB, a tie rounded to the even digit
FormatKb(size) ==
    LET q == (size * 10) \div 1024
        r == (size * 10) % 1024
    IN  IF r > 512 \/ (r = 512 /\ q % 2 = 1) THEN q + 1 ELSE q

\* Whether a value stands for a document: "if not doc" is true of None (and
\* of an empty dict, which the cache never holds)
IsDoc(doc) == "content" \in DOMAIN doc

\* execute_tool(tool_name, arguments)
execute_tool(tool_name) ==
    LET doc == get_cached_doc(tool_name) IN
    IF ~IsDoc(doc)
    THEN <<Line("not_found", tool_name)>>
    ELSE <<Line("title", doc.display_name), Line("blank", "")>>
         \o (IF doc.description # ""
             THEN <<Line("description", doc.description), Line("blank", "")>> ELSE <<>>)
         \o <<Line("metadata", ""), Line("blank", ""),
              Line("urls", doc.urls), Line("fetched", doc.fetched_at),
              Line("size_kb", FormatKb(doc.size)), Line("blank", "")>>
         \o (IF "error" \in DOMAIN doc
             THEN <<Line("warning", doc.error), Line("blank", "")>> ELSE <<>>)
         \o <<Line("rule", ""), Line("blank", ""), Line("content", doc.content)>>

\* Variant: every entry is reported as successfully cached
ListEntryMutant(tool_name, doc) ==
    <<Line("entry", tool_name), Line("display_name", doc.display_name)>>
    \o (IF doc.description # "" THEN <<Line("description", doc.description)>> ELSE <<>>)
    \o <<Line("url_count", Len(doc.urls)), Line("size_kb", FormatKb(doc.size))>>
    \o <<Line("status_ok", ""), Line("blank", "")>>

\* The lines execute_list_docs_tool gives one cache entry
ListEntry(tool_name, doc) ==
    <<Line("entry", tool_name), Line("display_name", doc.display_name)>>
    \o (IF doc.description # "" THEN <<Line("description", doc.description)>> ELSE <<>>)
    \o <<Line("url_count", Len(doc.urls)), Line("size_kb", FormatKb(doc.size))>>
    \o (IF "error" \in DOMAIN doc
        THEN <<Line("status_error", doc.error)>>
        ELSE <<Line("status_ok", "")>>)
    \o <<Line("blank", "")>>

RECURSIVE ListEntries(_, _)
\* for tool_name, doc in all_docs.items(), in some order of the keys
ListEntries(all_docs, keys) ==
    IF keys = {} THEN <<>>
    ELSE LET k == CHOOSE x \in keys : TRUE IN
         ListEntry(k, all_docs[k]) \o ListEntries(all_docs, keys \ {k})

\* execute_list_docs_tool(arguments)
execute_list_docs_tool ==
    LET all_docs == get_all_cached_docs IN
    IF DOMAIN all_docs = {}
    THEN <<Line("heading", ""), Line("no_docs", "")>>
    ELSE <<Line("heading", ""), Line("total", Cardinality(DOMAIN all_docs))>>
         \o ListEntries(all_docs, DOMAIN all_docs)

NoResponse == [op |-> "none", arg |-> "", cold |-> TRUE, out |-> <<>>]

\* A caller executes a documentation tool and gets its text
ExecuteTool(tool_name) ==
    /\ response' = [op |-> "execute_tool", arg |-> tool_name,
                    cold |-> (\A c \in Cycles : cyc[c].pc # "done"),
                    out |-> execute_tool(tool_name)]
    /\ UNCHANGED <<docs_cache, cyc, now, published, config_file>>
    /\ UNCHANGED <<parsing, server_vars, heap_vars>>

\* A caller executes list_available_docs and gets its text
ExecuteListDocsTool ==
    /\ response' = [op |-> "execute_list_docs_tool", arg |-> "",
                    cold |-> (\A c \in Cycles : cyc[c].pc # "done"),
                    out |-> execute_list_docs_tool]
    /\ UNCHANGED <<docs_cache, cyc, now, published, config_file>>
    /\ UNCHANGED <<parsing, server_vars, heap_vars>>

\* No normalizer run
NoParsing == [pc |-> "none"]

-----------------------------------------------------------------------------
(* server.py: the handlers list_tools and call_tool, and _ensure_initialized. *)
(* Invocation k awaits its own call of fetch_all_docs, cycle k.  A handler    *)
(* runs without interruption between two awaits that suspend it; the only    *)
(* one is the gather inside fetch_all_docs.                                  *)

\* A tool invocation that has not arrived
NoCall == [pc |-> "idle", handler |-> "", name |-> "", out |-> <<>>, err |-> "",
           warm |-> FALSE]

\* The requests a client sends: list_tools, or call_tool with a name
ServerToolNames == {"t1", "list_available_docs"}
Requests == {[handler |-> "call_tool", name |-> n] : n \in ServerToolNames}
            \cup {[handler |-> "list_tools", name |-> ""]}

\* config.yaml as a call finds it: one source, a record without tool_name
\* after one without urls, or no file
ServerConfigFiles == {
    [exists |-> TRUE, sources |-> <<SrcText>>],
    [exists |-> TRUE, sources |-> <<SrcNoUrls, SrcNoName>>],
    [exists |-> FALSE, sources |-> <<>>] }

\* call_tool after "await _ensure_initialized()": the text of the content
call_tool(name) ==
    IF name = "list_available_docs" THEN execute_list_docs_tool ELSE execute_tool(name)

RECURSIVE ToolDefs(_, _)
\* tools.load_tool_definitions from source i on: the names of the tools, or the
\* KeyError of source["tool_name"]
ToolDefs(sources, i) ==
    IF i > Len(sources) THEN [kind |-> "ok", names |-> <<>>]
    ELSE IF "tool_name" \notin DOMAIN sources[i] THEN [kind |-> "exc", type |-> "KeyError"]
    ELSE LET rest == ToolDefs(sources, i + 1) IN
         IF rest.kind = "exc" THEN rest
         ELSE [kind |-> "ok", names |-> <<sources[i].tool_name>> \o rest.names]

\* list_tools after "await _ensure_initialized()", on the file as it is then
list_tools(file) ==
    IF ~file.exists THEN [kind |-> "exc", type |-> "FileNotFoundError"]
    ELSE LET defs == ToolDefs(file.sources, 1) IN
         IF defs.kind = "exc" THEN defs
         ELSE [kind |-> "ok",
               names |-> [i \in 1..(Len(defs.names) + 1) |->
                            IF i <= Len(defs.names) THEN Line("tool", defs.names[i])
                            ELSE Line("tool", "list_available_docs")]]

\* The invocation has raised
RaisedCall(call, type) == [call EXCEPT !.pc = "raised", !.err = type]

\* Invocation k has arrived before invocation k + 1
MayArrive(k) ==
    /\ calls[k].pc = "idle"
    /\ \A j \in Cycles : (j < k => calls[j].pc # "idle")

\* The handler from "await _ensure_initialized()" returning to its own return:
\* call_tool reads the cache as it is after this step, list_tools reads the file
HandlerReturns(k, req, file) ==
    IF req.handler = "call_tool"
    THEN calls' = [calls EXCEPT ![k] =
                     [pc |-> "returned", handler |-> req.handler, name |-> req.name,
                      out |-> call_tool(req.name)', err |-> "",
                      warm |-> (\E c \in Cycles : cyc'[c].pc = "done")]]
    ELSE LET defs == list_tools(file) IN
         calls' = [calls EXCEPT ![k] =
                     IF defs.kind = "exc"
                     THEN [pc |-> "raised", handler |-> req.handler, name |-> req.name,
                           out |-> <<>>, err |-> defs.type, warm |-> FALSE]
                     ELSE [pc |-> "returned", handler |-> req.handler, name |-> req.name,
                           out |-> defs.names, err |-> "", warm |-> FALSE]]

\* A request arrives when _initialized is set: _ensure_initialized returns at
\* once and the handler runs to its end
HandleInitialized(k, req, file) ==
    /\ MayArrive(k)
    /\ initialized
    /\ config_file' = file
    /\ UNCHANGED <<docs_cache, cyc, now, published, response, parsing, initialized, heap_vars>>
    /\ HandlerReturns(k, req, file)

\* A request arrives, _initialized is not set and there is no configuration
\* file: _ensure_initialized raises FileNotFoundError
EnsureInitializedNoConfig(k, req, file) ==
    /\ MayArrive(k)
    /\ ~initialized
    /\ ~file.exists
    /\ config_file' = file
    /\ calls' = [calls EXCEPT ![k] =
                   [pc |-> "raised", handler |-> req.handler, name |-> req.name,
                    out |-> <<>>, err |-> "FileNotFoundError", warm |-> FALSE]]
    /\ UNCHANGED <<docs_cache, cyc, now, published, response, parsing, initialized, heap_vars>>

\* A request arrives and _initialized is not set: _ensure_initialized calls
\* fetch_all_docs, which reads the file, creates its tasks and awaits gather
EnsureInitializedFetch(k, req, file) ==
    /\ MayArrive(k)
    /\ ~initialized
    /\ file.exists
    /\ config_file' = file
    /\ cyc' = [cyc EXCEPT ![k] =
                 [IdleCycle EXCEPT !.pc = "gather", !.sources = file.sources,
                                   !.tasks = [s \in 1..Len(file.sources) |-> NewTask]]]
    /\ now' = now + 1
    /\ calls' = [calls EXCEPT ![k] =
                   [pc |-> "refresh", handler |-> req.handler, name |-> req.name,
                    out |-> <<>>, err |-> "", warm |-> FALSE]]
    /\ UNCHANGED <<docs_cache, published, response, parsing, initialized, heap_vars>>

\* Variant: _initialized is set whether fetch_all_docs returned or raised
InitializedAfterMutant(aborted) == TRUE
\* _initialized after "await fetcher.fetch_all_docs(config_path)": set when the
\* call returned, left as it is when it raised
InitializedAfter(aborted) == IF aborted THEN initialized ELSE TRUE

\* gather of cycle k has every result: fetch_all_docs builds the cache and
\* returns, _ensure_initialized sets _initialized and the handler runs to its
\* end; or the KeyError of the build passes through all of them
EnsureInitializedResume(k, req, file) ==
    /\ calls[k].pc = "refresh"
    /\ req = [handler |-> calls[k].handler, name |-> calls[k].name]
    /\ InFlight(k)
    /\ \A s \in 1..Len(cyc[k].tasks) : cyc[k].tasks[s].pc = "done"
    /\ PublishCycle(k)
    /\ config_file' = file
    /\ initialized' = InitializedAfter(cyc'[k].pc = "aborted")
    /\ IF cyc'[k].pc = "aborted"
       THEN calls' = [calls EXCEPT ![k] = RaisedCall(calls[k], "KeyError")]
       ELSE HandlerReturns(k, req, file)
    /\ UNCHANGED <<now, response, parsing, heap_vars>>

-----------------------------------------------------------------------------
(* The objects behind the catalogs.  A catalog is a dict object that maps a   *)
(* tool name to a Document, itself a dict object; an object is known by its   *)
(* position in heap.dicts or heap.docs, and two names bound to one position   *)
(* are aliases.  HeapSpec follows the objects; in Spec and ServerSpec only    *)
(* their values (docs_cache) are followed.                                   *)

\* A caller holds at most MaxHeld catalogs
MaxHeld == 2

\* The module is loaded: _docs_cache = {} (fetcher.py:16) is object 1
NoObjects == [dicts |-> <<EmptyDict>>, docs |-> <<>>]

\* The catalog a dict object holds: tool name -> the Document as it is now
Deref(h, ref) == [k \in DOMAIN h.dicts[ref] |-> h.docs[h.dicts[ref][k]]]

\* Variant: _docs_cache.clear(), the object stays the same
RebindMutant(h, ref) == [heap |-> [h EXCEPT !.dicts[ref] = EmptyDict], ref |-> ref]
\* _docs_cache = {}: a new dict object, and the name bound to it
Rebind(h, ref) ==
    [heap |-> [h EXCEPT !.dicts = Append(@, EmptyDict)], ref |-> Len(h.dicts) + 1]

\* _docs_cache[tool_name] = doc, doc being a dict object nobody else holds:
\* the result of the source's task, or the placeholder made on the spot
StoreDoc(h, ref, tool_name, doc) ==
    [h EXCEPT !.docs = Append(@, doc),
              !.dicts[ref] = DictSet(@, tool_name, Len(h.docs) + 1)]

RECURSIVE BuildObjects(_, _, _, _, _, _)
\* for source, result in zip(sources, results), from pair i on, on the dict
\* object ref; the KeyError of source["tool_name"] ends the loop
BuildObjects(sources, results, i, h, ref, clock) ==
    IF i > Len(sources) \/ "tool_name" \notin DOMAIN sources[i] THEN h
    ELSE BuildObjects(sources, results, i + 1,
                      StoreDoc(h, ref, sources[i].tool_name,
                               CacheEntry(sources[i], results[i], clock)),
                      ref, clock)

\* _docs_cache.copy(): a new dict object with the same Documents
CopyDict(h, ref) == [h EXCEPT !.dicts = Append(@, h.dicts[ref])]

\* A catalog a caller holds
Snapshot(h, ref, op, clock) ==
    [ref |-> ref, seen |-> Deref(h, ref), op |-> op, at |-> clock]

\* gather has every result and fetch_all_docs runs to its end, on the objects:
\* the caller keeps the catalog object that is returned, or drops it
PublishObjects(c, keep) ==
    /\ InFlight(c)
    /\ \A s \in 1..Len(cyc[c].tasks) : cyc[c].tasks[s].pc = "done"
    /\ keep => Len(held) < MaxHeld
    /\ PublishCycle(c)
    /\ cache_ref' = Rebind(heap, cache_ref).ref
    /\ heap' = BuildObjects(cyc[c].sources, cyc'[c].results, 1,
                            Rebind(heap, cache_ref).heap, cache_ref', now)
    /\ held' = IF keep /\ cyc'[c].pc = "done"
               THEN Append(held, Snapshot(heap', cache_ref', "fetch_all_docs", now))
               ELSE held
    /\ UNCHANGED <<now, config_file, response, parsing, server_vars>>

\* A caller calls get_all_cached_docs and keeps what it returns
GetAllCachedDocs ==
    /\ Len(held) < MaxHeld
    /\ heap' = CopyDict(heap, cache_ref)
    /\ held' = Append(held, Snapshot(heap', Len(heap'.dicts), "get_all_cached_docs", now))
    /\ UNCHANGED <<docs_cache, cyc, now, published, config_file, response, parsing,
                   server_vars, cache_ref>>

-----------------------------------------------------------------------------
(* The specification *)

Init ==
    /\ docs_cache = EmptyDict
    /\ cyc = [c \in Cycles |-> IdleCycle]
    /\ now = 0
    /\ published = EmptyDict
    /\ config_file \in ConfigFiles
    /\ response = NoResponse
    /\ parsing = NoParsing
    /\ initialized = FALSE
    /\ calls = [k \in Cycles |-> NoCall]
    /\ heap = NoObjects
    /\ cache_ref = 1
    /\ held = <<>>

Next ==
    \/ \E c \in Cycles : FetchAllDocs(c)
    \/ \E c \in Cycles : FetchAllDocsNoConfig(c)
    \/ \E c \in Cycles, s \in 1..3 : s <= Len(cyc[c].tasks) /\ StartSource(c, s)
    \/ \E c \in Cycles, s \in 1..3 : s <= Len(cyc[c].tasks) /\ ClientGet(c, s)
    \/ \E c \in Cycles, s \in 1..3 : s <= Len(cyc[c].tasks) /\ SleepDone(c, s)
    \/ \E c \in Cycles, s \in 1..3 : s <= Len(cyc[c].tasks) /\ ResumeSource(c, s)
    \/ \E c \in Cycles : Publish(c)
    \/ \E tool_name \in ToolNames : ExecuteTool(tool_name)
    \/ ExecuteListDocsTool

Spec == Init /\ [][Next]_vars

-----------------------------------------------------------------------------
(* The normalizers on their own: _fetch_source from "if not contents" on,    *)
(* for a source record and the contents its URLs gave.                       *)

\* An HTML payload has at most MaxSiblings sibling elements
MaxSiblings == 4

RECURSIVE SeqsUpTo(_, _)
\* The non-empty sequences over S of length at most n
SeqsUpTo(S, n) ==
    IF n = 0 THEN {}
    ELSE LET shorter == SeqsUpTo(S, n - 1) IN
         {<<x>> : x \in S} \cup shorter \cup {Append(q, x) : q \in shorter, x \in S}

HtmlPayloads == SeqsUpTo({e.token : e \in Elements}, MaxSiblings)
JsonPayloads == {<<d.text>> : d \in JsonDocuments}
XmlPayloads == {<<d.text>> : d \in XmlDocuments}
TextPayloads == {<<"a">>, <<"<U+00E9>">>, <<"<script>", "c">>}

\* One payload of each kind
SamplePayloads == {<<"a">>, <<"<p>x</p>">>, <<"<h2>Deprecated Feature</h2>", "<hr>">>,
                   <<"{\"properties\": {\"p\": {\"type\": \"s\"}}}">>, <<"5">>, <<"<a>x</a>">>}

SrcOfType(type) == [tool_name |-> "t1", urls |-> <<"u1">>, type |-> type]

\* Source records whose contents go to parse_html
HtmlSources == {[tool_name |-> "t1", urls |-> <<"u1">>],
                [tool_name |-> "t1", urls |-> <<"u1">>, strip_deprecated |-> FALSE],
                SrcOfType("gitlab_repo")}

ParseSources == HtmlSources \cup {SrcOfType(t) : t \in {"json", "xml", "text"}}

\* The source records and fetched contents the normalizers are run on
ParseInputs ==
    {[source |-> s, contents |-> <<p>>] : s \in HtmlSources, p \in HtmlPayloads}
    \cup {[source |-> s, contents |-> <<p>>] :
             s \in ParseSources, p \in JsonPayloads \cup XmlPayloads \cup TextPayloads}
    \cup {[source |-> s, contents |-> <<p, q>>] :
             s \in ParseSources, p \in SamplePayloads, q \in SamplePayloads}

\* _fetch_source from "if not contents" to its return, or to the exception
\* that ends it
ParseContents ==
    /\ parsing.pc = "input"
    /\ parsing' = [parsing EXCEPT !.pc = "done",
                                  !.result = Aggregate(parsing.source, parsing.contents, now)]
    /\ UNCHANGED <<docs_cache, cyc, now, published, config_file, response, server_vars, heap_vars>>

ParseInit ==
    /\ docs_cache = EmptyDict
    /\ cyc = [c \in Cycles |-> IdleCycle]
    /\ now = 0
    /\ published = EmptyDict
    /\ config_file = [exists |-> FALSE, sources |-> <<>>]
    /\ response = NoResponse
    /\ parsing \in {[pc |-> "input", source |-> in.source, contents |-> in.contents,
                      result |-> Pending] : in \in ParseInputs}
    /\ initialized = FALSE
    /\ calls = [k \in Cycles |-> NoCall]
    /\ heap = NoObjects
    /\ cache_ref = 1
    /\ held = <<>>

ParseNext == ParseContents

ParserSpec == ParseInit /\ [][ParseNext]_vars

-----------------------------------------------------------------------------
(* The server: tool invocations that arrive one after the other or while     *)
(* earlier ones still await their refresh.                                   *)

ServerInit ==
    /\ docs_cache = EmptyDict
    /\ cyc = [c \in Cycles |-> IdleCycle]
    /\ now = 0
    /\ published = EmptyDict
    /\ config_file \in ServerConfigFiles
    /\ response = NoResponse
    /\ parsing = NoParsing
    /\ initialized = FALSE
    /\ calls = [k \in Cycles |-> NoCall]
    /\ heap = NoObjects
    /\ cache_ref = 1
    /\ held = <<>>

ServerNext ==
    \/ \E k \in Cycles, req \in Requests, file \in ServerConfigFiles :
           HandleInitialized(k, req, file)
    \/ \E k \in Cycles, req \in Requests, file \in ServerConfigFiles :
           EnsureInitializedNoConfig(k, req, file)
    \/ \E k \in Cycles, req \in Requests, file \in ServerConfigFiles :
           EnsureInitializedFetch(k, req, file)
    \/ \E c \in Cycles, s \in 1..3 : s <= Len(cyc[c].tasks) /\ StartSource(c, s)
    \/ \E c \in Cycles, s \in 1..3 : s <= Len(cyc[c].tasks) /\ ClientGet(c, s)
    \/ \E c \in Cycles, s \in 1..3 : s <= Len(cyc[c].tasks) /\ SleepDone(c, s)
    \/ \E c \in Cycles, s \in 1..3 : s <= Len(cyc[c].tasks) /\ ResumeSource(c, s)
    \/ \E k \in Cycles, req \in Requests, file \in ServerConfigFiles :
           EnsureInitializedResume(k, req, file)

ServerSpec == ServerInit /\ [][ServerNext]_vars

-----------------------------------------------------------------------------
(* The catalogs as objects: calls of fetch_all_docs one after the other, and *)
(* callers that keep the catalogs they are given.                            *)

HeapInit ==
    /\ docs_cache = EmptyDict
    /\ cyc = [c \in Cycles |-> IdleCycle]
    /\ now = 0
    /\ published = EmptyDict
    /\ config_file \in ServerConfigFiles
    /\ response = NoResponse
    /\ parsing = NoParsing
    /\ initialized = FALSE
    /\ calls = [k \in Cycles |-> NoCall]
    /\ heap = NoObjects
    /\ cache_ref = 1
    /\ held = <<>>

HeapNext ==
    \/ \E c \in Cycles : FetchAllDocs(c)
    \/ \E c \in Cycles : FetchAllDocsNoConfig(c)
    \/ \E c \in Cycles, s \in 1..3 : s <= Len(cyc[c].tasks) /\ StartSource(c, s)
    \/ \E c \in Cycles, s \in 1..3 : s <= Len(cyc[c].tasks) /\ ClientGet(c, s)
    \/ \E c \in Cycles, s \in 1..3 : s <= Len(cyc[c].tasks) /\ SleepDone(c, s)
    \/ \E c \in Cycles, s \in 1..3 : s <= Len(cyc[c].tasks) /\ ResumeSource(c, s)
    \/ \E c \in Cycles, keep \in BOOLEAN : PublishObjects(c, keep)
    \/ GetAllCachedDocs

HeapSpec == HeapInit /\ [][HeapNext]_vars

-----------------------------------------------------------------------------
(* The refresh under fair scheduling: the event loop runs every coroutine    *)
(* that can run, every client.get ends (with a response, an error or the     *)
(* timeout of the client) and every asyncio.sleep ends.  Whether and when    *)
(* the caller calls fetch_all_docs is left open.                             *)

\* config.yaml: sources whose contents are passed through as they are, with
\* three URLs or one; a record without tool_name; no record; no file
SrcTextThree == [tool_name |-> "t1", urls |-> <<"u1", "u2", "u3">>, type |-> "text"]
SrcTextOne == [tool_name |-> "t2", urls |-> <<"u4">>, type |-> "text"]
SrcTextNoName == [display_name |-> "T3", urls |-> <<"u1">>, type |-> "text"]
LiveConfigFiles == {
    [exists |-> TRUE, sources |-> <<SrcTextThree>>],
    [exists |-> TRUE, sources |-> <<SrcText, SrcTextOne>>],
    [exists |-> TRUE, sources |-> <<SrcNoUrls, SrcTextNoName>>],
    [exists |-> TRUE, sources |-> <<>>],
    [exists |-> FALSE, sources |-> <<>>] }

LiveInit ==
    /\ docs_cache = EmptyDict
    /\ cyc = [c \in Cycles |-> IdleCycle]
    /\ now = 0
    /\ published = EmptyDict
    /\ config_file \in LiveConfigFiles
    /\ response = NoResponse
    /\ parsing = NoParsing
    /\ initialized = FALSE
    /\ calls = [k \in Cycles |-> NoCall]
    /\ heap = NoObjects
    /\ cache_ref = 1
    /\ held = <<>>

LiveNext ==
    \/ \E c \in Cycles : FetchAllDocs(c)
    \/ \E c \in Cycles : FetchAllDocsNoConfig(c)
    \/ \E c \in Cycles, s \in 1..3 : s <= Len(cyc[c].tasks) /\ StartSource(c, s)
    \/ \E c \in Cycles, s \in 1..3 : s <= Len(cyc[c].tasks) /\ ClientGet(c, s)
    \/ \E c \in Cycles, s \in 1..3 : s <= Len(cyc[c].tasks) /\ SleepDone(c, s)
    \/ \E c \in Cycles, s \in 1..3 : s <= Len(cyc[c].tasks) /\ ResumeSource(c, s)
    \/ \E c \in Cycles : Publish(c)

Fairness ==
    \A c \in Cycles :
        /\ WF_vars(Publish(c))
        /\ \A s \in 1..3 :
              /\ WF_vars(s <= Len(cyc[c].tasks) /\ StartSource(c, s))
              /\ WF_vars(s <= Len(cyc[c].tasks) /\ ClientGet(c, s))
              /\ WF_vars(s <= Len(cyc[c].tasks) /\ SleepDone(c, s))
              /\ WF_vars(s <= Len(cyc[c].tasks) /\ ResumeSource(c, s))

LiveSpec == LiveInit /\ [][LiveNext]_vars /\ Fairness

-----------------------------------------------------------------------------
(* Properties *)

\* The tasks that exist, as <<cycle, source index>>
Tasks == {cs \in Cycles \X (1..3) : cs[2] <= Len(cyc[cs[1]].tasks)}
TaskOf(cs) == cyc[cs[1]].tasks[cs[2]]
SourceOf(cs) == cyc[cs[1]].sources[cs[2]]

\* The _fetch_source tasks that have ended and were given a tool_name
Ended == {cs \in Tasks : TaskOf(cs).pc = "done" /\ "tool_name" \in DOMAIN SourceOf(cs)}

\* The calls of fetch_all_docs that returned a catalog and whose caller still holds it
Completed == {c \in Cycles : cyc[c].pc = "done" /\ cyc[c].sources # <<>>}

NameOf(c, s) == cyc[c].sources[s].tool_name

\* C1: a reader that calls get_all_cached_docs while a refresh is under way
\* gets the catalog the last completed refresh returned (the empty catalog
\* when none has completed): never a partly built one.
C1_CatalogAtomicity ==
    (\E c \in Cycles : InFlight(c)) => get_all_cached_docs = published

\* C2: a completed fetch_all_docs over sources with distinct tool names
\* returns a catalog with an entry for every configured tool name; a source
\* that succeeded keeps its own Document whatever the other sources did, and
\* a failed source is present, marked with an error.
C2_FailureIsolation ==
    \A c \in Completed :
        LET n == Len(cyc[c].sources) IN
        (\A s1, s2 \in 1..n : s1 # s2 => NameOf(c, s1) # NameOf(c, s2))
        => /\ DOMAIN cyc[c].ret = {NameOf(c, s) : s \in 1..n}
           /\ docs_cache = cyc[c].ret
           /\ \A s \in 1..n :
                /\ cyc[c].results[s].kind = "doc"
                   => cyc[c].ret[NameOf(c, s)] = cyc[c].results[s].doc
                /\ cyc[c].results[s].kind = "exc"
                   => "error" \in DOMAIN cyc[c].ret[NameOf(c, s)]

C2_Witness ==
    \E c \in Completed :
        \E s1, s2 \in 1..Len(cyc[c].sources) :
            /\ cyc[c].results[s1].kind = "exc"
            /\ cyc[c].results[s2].kind = "doc"
            /\ NameOf(c, s2) \in DOMAIN docs_cache

\* C3: a URL whose fetch ended in a terminal error (a non-retryable status, or
\* a retryable failure on the last attempt) does not fail its source when
\* another URL of the source was fetched with content: the source yields a
\* Document.
C3_UrlFailureAbsorbed ==
    \A cs \in Ended :
        (/\ \E i \in DOMAIN TaskOf(cs).fetched : TaskOf(cs).fetched[i].kind # "text"
         /\ \E i \in DOMAIN TaskOf(cs).fetched : Truthy(TaskOf(cs).fetched[i]))
        => TaskOf(cs).result.kind = "doc"

\* C4: when no URL of a source gave a response (each fetch ended in a failure,
\* or the source has no URL), _fetch_source raises ValueError "No content
\* fetched for <tool_name>".
C4_NoContentFetched ==
    \A cs \in Ended :
        (/\ Len(TaskOf(cs).fetched) = Len(Get(SourceOf(cs), "urls", <<>>))
         /\ \A i \in DOMAIN TaskOf(cs).fetched : TaskOf(cs).fetched[i].kind # "text")
        => TaskOf(cs).result =
               Exc("ValueError", <<"No content fetched for ", SourceOf(cs).tool_name>>)

\* C5: when some URL of a source was answered with a success response,
\* _fetch_source returns a Document with content that is not empty and with
\* no error field.
C5_ReachableGivesDocument ==
    \A cs \in Ended :
        (\E i \in DOMAIN TaskOf(cs).fetched : TaskOf(cs).fetched[i].kind = "text")
        => /\ TaskOf(cs).result.kind = "doc"
           /\ TaskOf(cs).result.doc.content # <<>>
           /\ "error" \notin DOMAIN TaskOf(cs).result.doc

\* C6: in the catalog of a completed fetch_all_docs the entry of a source has
\* an error field exactly when the source's task raised; the entry is then a
\* placeholder with the exception's message as error, size 0, the error banner
\* followed by the message as content, and the display_name, description and
\* urls of the source record (with their defaults).
C6_PlaceholderIffFailed ==
    \A c \in Completed :
        \A s \in 1..Len(cyc[c].sources) :
            LET source == cyc[c].sources[s]
                result == cyc[c].results[s]
                entry == docs_cache[source.tool_name]
            IN  /\ ("error" \in DOMAIN entry) <=> (result.kind = "exc")
                /\ result.kind = "exc" =>
                     /\ entry.error = result.msg
                     /\ entry.size = 0
                     /\ entry.content =
                            <<"# Error\n\nFailed to fetch documentation: ">> \o result.msg
                     /\ entry.display_name =
                            (IF "display_name" \in DOMAIN source
                             THEN source.display_name ELSE source.tool_name)
                     /\ entry.description =
                            (IF "description" \in DOMAIN source
                             THEN source.description ELSE "")
                     /\ entry.urls =
                            (IF "urls" \in DOMAIN source THEN source.urls ELSE <<>>)

C6_Witness ==
    \E c \in Completed :
        \E s \in 1..Len(cyc[c].sources) :
            /\ cyc[c].results[s].kind = "exc"
            /\ cyc[c].results[s].type = "HTTPStatusError"
            /\ docs_cache[NameOf(c, s)].size = 0
            /\ "display_name" \notin DOMAIN cyc[c].sources[s]

\* C7: a 401, 403 or 404 response ends the fetch at once with None, on any
\* attempt: that attempt is the last event of the fetch, with no delay after
\* it.  Any other failed attempt is followed by a delay and one more attempt,
\* unless it was the last attempt allowed.
C7_NonRetryableEndsFetch ==
    \A cs \in Tasks :
        LET t == TaskOf(cs) IN
        t.last.kind \in {"status", "error"} =>
            IF t.last.kind = "status" /\ t.last.code \in {401, 403, 404}
            THEN /\ t.pc = "ret"
                 /\ t.ret = PyNone
                 /\ t.log[Len(t.log)] = <<"get", t.attempt>>
                 /\ Cardinality({j \in DOMAIN t.log : t.log[j][1] = "sleep"}) = t.attempt
            ELSE \/ /\ t.pc = "sleep"
                    /\ t.attempt < max_retries - 1
                    /\ t.log[Len(t.log)][1] = "sleep"
                    /\ t.log[Len(t.log) - 1] = <<"get", t.attempt>>
                 \/ /\ t.pc = "get"
                    /\ t.attempt >= 1
                    /\ t.log[Len(t.log)][1] = "sleep"
                 \/ /\ t.pc = "ret"
                    /\ t.ret.kind = "exc"
                    /\ t.attempt = max_retries - 1

C7_Witness ==
    \E cs \in Tasks :
        /\ TaskOf(cs).last.kind = "status"
        /\ TaskOf(cs).last.code = 401
        /\ TaskOf(cs).attempt = 0
        /\ TaskOf(cs).log = << <<"get", 0>> >>
        /\ TaskOf(cs).ret = PyNone

\* C8: a fetch that succeeds on attempt k (counted from 0) after k retryable
\* failures returns the response text; its events are attempt 0, delay 1,
\* attempt 1, delay 2, ..., attempt k: k delays, the j-th of length 2^j, each
\* between two consecutive attempts.
C8_BackoffBeforeSuccess ==
    \A cs \in Tasks :
        LET t == TaskOf(cs)
            k == t.attempt
        IN  (t.pc = "ret" /\ t.ret.kind = "text") =>
                /\ k < max_retries
                /\ t.ret.text = t.last.body
                /\ Len(t.log) = 2 * k + 1
                /\ \A j \in 0..k : t.log[2 * j + 1] = <<"get", j>>
                /\ \A j \in 0..(k - 1) : t.log[2 * j + 2] = <<"sleep", Pow2(j)>>

C8_Witness ==
    \E cs \in Tasks :
        /\ TaskOf(cs).pc = "ret"
        /\ TaskOf(cs).ret = Text(<<"a">>)
        /\ TaskOf(cs).log = << <<"get", 0>>, <<"sleep", 1>>, <<"get", 1>>,
                               <<"sleep", 2>>, <<"get", 2>> >>

RECURSIVE ExpectedParts(_, _)
\* The normalized outputs of the URLs that gave content, in the order of urls
ExpectedParts(fetched, source) ==
    IF fetched = <<>> THEN <<>>
    ELSE (IF Truthy(fetched[1])
          THEN <<Normalize(Get(source, "type", "html"), fetched[1].text,
                           Get(source, "urls", <<>>),
                           Get(source, "strip_deprecated", TRUE)).text>>
          ELSE <<>>)
         \o ExpectedParts(Tail(fetched), source)

\* C9: the content of a Document is the normalized outputs of the URLs that
\* gave content, in the order the source declares its urls, joined by
\* "\n\n---\n\n"; a URL that gave nothing is left out and the others keep
\* their order.
C9_DeclaredOrder ==
    \A cs \in Ended :
        TaskOf(cs).result.kind = "doc" =>
            TaskOf(cs).result.doc.content =
                Join(<<"\n", "\n", "-", "-", "-", "\n", "\n">>,
                     ExpectedParts(TaskOf(cs).fetched, SourceOf(cs)))

C9_Witness ==
    \E cs \in Ended :
        /\ Len(TaskOf(cs).fetched) = 3
        /\ TaskOf(cs).fetched[1] = Text(<<"a">>)
        /\ TaskOf(cs).fetched[2] = PyNone
        /\ TaskOf(cs).fetched[3].kind = "text"
        /\ TaskOf(cs).result.kind = "doc"
        /\ TaskOf(cs).result.doc.content =
               <<"a", "\n", "\n", "-", "-", "-", "\n", "\n", "c">>

\* The tool names of the configuration file
Configured == {config_file.sources[s].tool_name :
                 s \in {x \in 1..Len(config_file.sources) :
                          "tool_name" \in DOMAIN config_file.sources[x]}}

IsNotFound(out, tool_name) ==
    Len(out) = 1 /\ out[1].line = "not_found" /\ out[1].arg = tool_name

IsNoDocs(out) == Len(out) = 2 /\ out[2].line = "no_docs"

\* C10: as long as no fetch_all_docs has completed, get_cached_doc gives None
\* for every tool name, get_all_cached_docs gives the empty catalog, and the
\* tools answer "not found" and "no documentation currently cached"; a tool
\* name that is not configured gets None and "not found" at any time.
C10_ColdCache ==
    /\ (\A c \in Cycles : cyc[c].pc # "done") =>
           /\ get_all_cached_docs = EmptyDict
           /\ IsNoDocs(execute_list_docs_tool)
           /\ \A t \in ToolNames :
                  get_cached_doc(t) = PyNone /\ IsNotFound(execute_tool(t), t)
    /\ \A t \in ToolNames \ Configured :
           get_cached_doc(t) = PyNone /\ IsNotFound(execute_tool(t), t)
    /\ (response.op = "execute_tool" /\ response.cold)
           => IsNotFound(response.out, response.arg)
    /\ (response.op = "execute_list_docs_tool" /\ response.cold)
           => IsNoDocs(response.out)

\* C11: a call of fetch_all_docs that ended with an error (the configuration
\* file could not be opened, or a source record had no tool_name) has left
\* the catalog as the last completed call returned it: the catalog readers
\* get is never the partly built one of a failed call.
C11_FailedCycleKeepsCatalog ==
    (\E c \in Cycles : cyc[c].pc = "aborted") => docs_cache = published

StatusLines == {"status_error", "status_ok"}

\* The positions of the "## `tool_name`" line of an index
EntryLines(out, tool_name) ==
    {i \in DOMAIN out : out[i].line = "entry" /\ out[i].arg = tool_name}

\* The position of the status line of the entry that starts at line i
StatusLineOf(out, i) ==
    {j \in (i + 1)..Len(out) :
        /\ out[j].line \in StatusLines
        /\ \A m \in (i + 1)..(j - 1) : out[m].line \notin StatusLines \cup {"entry"}}

\* C14: every entry of the catalog is listed once by execute_list_docs_tool,
\* with status "Error" and the entry's message exactly when the entry has an
\* error field and "Successfully cached" otherwise; execute_tool for its name
\* returns the formatted document (title first, content last) with the
\* warning line and the message exactly when the error field is set.
C14_FailedSourceMarked ==
    \A k \in DOMAIN docs_cache :
        LET doc == docs_cache[k]
            index == execute_list_docs_tool
            text == execute_tool(k)
            warnings == {i \in DOMAIN text : text[i].line = "warning"}
        IN  /\ Cardinality(EntryLines(index, k)) = 1
            /\ \A i \in EntryLines(index, k) :
                   /\ Cardinality(StatusLineOf(index, i)) = 1
                   /\ \A j \in StatusLineOf(index, i) :
                          IF "error" \in DOMAIN doc
                          THEN index[j].line = "status_error" /\ index[j].arg = doc.error
                          ELSE index[j].line = "status_ok"
            /\ text[1].line = "title"
            /\ text[Len(text)].line = "content"
            /\ text[Len(text)].arg = doc.content
            /\ (warnings # {}) <=> ("error" \in DOMAIN doc)
            /\ \A i \in warnings : text[i].arg = doc.error

C14_Witness ==
    /\ response.op = "execute_tool"
    /\ response.arg \in DOMAIN docs_cache
    /\ "error" \in DOMAIN docs_cache[response.arg]
    /\ \E i \in DOMAIN response.out :
           response.out[i].line = "warning"
           /\ response.out[i].arg = docs_cache[response.arg].error
    /\ \E k \in DOMAIN docs_cache : "error" \notin DOMAIN docs_cache[k]

\* A failure after which _fetch_with_retry tries again while attempts remain
Retryable(resp) ==
    \/ resp.kind = "error"
    \/ resp.kind = "status" /\ resp.code \notin {401, 403, 404}

Parsed == parsing.pc = "done"

\* C12: whatever the content type and the payloads, the normalizers return
\* text, so a source whose URLs gave content yields a Document.
C12_NormalizationNeverRaises ==
    Parsed =>
        /\ parsing.result.kind = "doc"
        /\ \A i \in DOMAIN parsing.contents :
               Normalize(Get(parsing.source, "type", "html"), parsing.contents[i],
                         parsing.source.urls,
                         Get(parsing.source, "strip_deprecated", TRUE)).kind = "text"

\* The level of a heading, and whether its text holds "deprecat", "legacy" or
\* "obsolete"
LevelOf(tok) == CHOOSE n \in 1..6 : NodeName(tok) = <<"h1", "h2", "h3", "h4", "h5", "h6">>[n]
IsHeading(tok) == NodeName(tok) \in {"h1", "h2", "h3", "h4", "h5", "h6"}
IsDeprecated(tok) ==
    IsHeading(tok) /\ ElementOf(tok).text \in {"Deprecated Feature", "Legacy API"}

\* Node i is a deprecated heading or lies in the section of one: no heading
\* of the same or a higher level stands between the two
InDeprecatedSection(nodes, i) ==
    \E j \in 1..i :
        /\ IsDeprecated(nodes[j])
        /\ \A k \in (j + 1)..i : ~(IsHeading(nodes[k]) /\ LevelOf(nodes[k]) <= LevelOf(nodes[j]))

RECURSIVE Outside(_, _)
\* The nodes from position i on that lie in no deprecated section
Outside(nodes, i) ==
    IF i > Len(nodes) THEN <<>>
    ELSE (IF InDeprecatedSection(nodes, i) THEN <<>> ELSE <<nodes[i]>>)
         \o Outside(nodes, i + 1)

\* The runs of parse_html on one sequence of sibling elements, with
\* strip_deprecated on
StripRun ==
    /\ Parsed
    /\ Len(parsing.contents) = 1
    /\ parsing.contents[1] \in HtmlPayloads
    /\ Get(parsing.source, "type", "html") \in {"html", "gitlab_repo"}
    /\ Get(parsing.source, "strip_deprecated", TRUE)

\* C13: with strip_deprecated on, every heading whose text matches and every
\* sibling after it up to the next heading of the same or a higher level are
\* deleted; that heading, everything after it and everything before the
\* matched heading stay, in their order, and are what the markdown is made of.
C13_DeprecatedSectionRemoved ==
    StripRun =>
        LET nodes == parsing.contents[1]
            left == _remove_deprecated_sections(nodes)
        IN  /\ left.kind = "soup"
            /\ left.nodes = Outside(nodes, 1)
            /\ parsing.result.kind = "doc"
            /\ parsing.result.doc.content = Strip(Collapse(md(Outside(nodes, 1))))

\* The UTF-8 length of a token: two bytes for U+00E9, one byte a character
\* for the other tokens, which are ASCII
Utf8Len(tok) == IF tok = "<U+00E9>" THEN 2 ELSE CharLen(tok)

RECURSIVE Utf8LenOf(_, _, _)
Utf8LenOf(text, lo, hi) ==
    IF lo > hi THEN 0
    ELSE IF lo = hi THEN Utf8Len(text[lo])
    ELSE LET mid == (lo + hi) \div 2 IN
         Utf8LenOf(text, lo, mid) + Utf8LenOf(text, mid + 1, hi)

\* C18: the size of a Document that _fetch_source returns is the number of
\* bytes of its content in UTF-8, and the Document has no error field.
C18_SizeIsByteLength ==
    (Parsed /\ parsing.result.kind = "doc") =>
        /\ parsing.result.doc.size =
               Utf8LenOf(parsing.result.doc.content, 1, Len(parsing.result.doc.content))
        /\ "error" \notin DOMAIN parsing.result.doc

\* The runs of parse_json_schema on one schema object whose properties is an
\* object and whose required, if it has one, is a list
SchemaRun ==
    /\ Parsed
    /\ Get(parsing.source, "type", "html") = "json"
    /\ Len(parsing.contents) = 1
    /\ LET data == json_loads(parsing.contents[1]) IN
       /\ data.t = "object"
       /\ \E i \in DOMAIN data.items :
              data.items[i].k = "properties" /\ data.items[i].t = "object"
       /\ \A i \in DOMAIN data.items :
              data.items[i].k = "required" => data.items[i].t = "array"

\* The member of an object with key k
Member(object, k) == object.items[CHOOSE i \in DOMAIN object.items : object.items[i].k = k]

\* The names the schema lists as required
RequiredNames(data) ==
    IF \E i \in DOMAIN data.items : data.items[i].k = "required"
    THEN {x.s : x \in {Member(data, "required").items[i] :
                         i \in DOMAIN Member(data, "required").items}}
    ELSE {}

\* C19: the output of parse_json_schema for a schema object has one "### "
\* subheading for each property, in the order of the schema, and the lines
\* under the subheading of a property hold "- **Required:** Yes" exactly
\* when the property's name is in the list required, whatever the property's
\* definition is.
C19_RequiredMarker ==
    SchemaRun =>
        LET data == json_loads(parsing.contents[1])
            props == Member(data, "properties").items
            n == Len(props)
            text == parsing.result.doc.content
            heads == {i \in DOMAIN text : text[i] = "### "}
            head(m) == CHOOSE i \in heads : Cardinality({j \in heads : j < i}) = m - 1
            end(m) == IF m < n THEN head(m + 1)
                      ELSE CHOOSE i \in DOMAIN text : text[i] = "## Full Schema (JSON)"
        IN  /\ parsing.result.kind = "doc"
            /\ Cardinality(heads) = n
            /\ \A m \in 1..n :
                   /\ text[head(m) + 2] = props[m].k
                   /\ (\E i \in head(m)..end(m) : text[i] = "- **Required:** Yes")
                          <=> (props[m].k \in RequiredNames(data))

-----------------------------------------------------------------------------
\* C17: among tool invocations that arrive before initialization has
\* completed the refresh is started once: no two calls of fetch_all_docs are
\* in flight together, and none is in flight (and so none can publish) once
\* _initialized is set and readers see the first catalog
C17_SingleInitialRefresh ==
    /\ Cardinality({c \in Cycles : InFlight(c)}) <= 1
    /\ initialized => \A c \in Cycles : ~InFlight(c)

\* C20: an invocation of call_tool that returned read the cache after some
\* refresh had completed and published, and whenever _initialized is set the
\* cache is the full result of a completed refresh
C20_ReadAfterPublish ==
    /\ \A k \in Cycles :
          calls[k].pc = "returned" /\ calls[k].handler = "call_tool" => calls[k].warm
    /\ initialized =>
          /\ \E c \in Cycles : cyc[c].pc = "done"
          /\ docs_cache = published

-----------------------------------------------------------------------------
\* C21: _initialized is set exactly when some refresh has returned, so a
\* refresh that raises leaves it as it was and it is never reset; the
\* invocation whose refresh raises (no configuration file, or the KeyError of
\* the build) raises itself; an invocation that arrives while _initialized is
\* not set attempts the refresh, and one that arrives once it is set starts
\* no refresh
C21_InitializationRetry ==
    [][/\ initialized => initialized'
       /\ initialized' <=> \E c \in Cycles : cyc'[c].pc = "done"
       /\ \A k \in Cycles :
            /\ (calls[k].pc # "raised" /\ calls'[k].pc = "raised" /\ cyc'[k].pc # "done")
                  => initialized' = initialized
            /\ (InFlight(k) /\ cyc'[k].pc = "aborted")
                  => calls'[k].pc = "raised" /\ calls'[k].err = "KeyError"
            /\ (calls[k].pc = "idle" /\ calls'[k].pc # "idle" /\ ~initialized)
                  => \/ calls'[k].pc = "refresh" /\ cyc'[k].pc = "gather"
                     \/ calls'[k].pc = "raised" /\ calls'[k].err = "FileNotFoundError"
                                                /\ ~config_file'.exists
            /\ (calls[k].pc = "idle" /\ calls'[k].pc # "idle" /\ initialized)
                  => calls'[k].pc # "refresh" /\ cyc'[k].pc = "idle"]_vars

\* An invocation's refresh raised, and the next invocation made the refresh
\* again and got its answer from the catalog of that refresh
C21_Witness ==
    /\ calls[1].pc = "raised"
    /\ cyc[1].pc \in {"idle", "aborted"}
    /\ calls[2].pc = "returned"
    /\ calls[2].handler = "call_tool"
    /\ cyc[2].pc = "done"
    /\ initialized

-----------------------------------------------------------------------------
\* C22: a catalog a caller obtained from get_all_cached_docs, or was returned
\* by fetch_all_docs, holds at any later time, whatever refreshes have run
\* since, the key set and the Documents it held when it was obtained
C22_SnapshotIsolation ==
    \A i \in DOMAIN held : Deref(heap, held[i].ref) = held[i].seen

\* Both kinds of catalog, with a Document in them, were obtained before the
\* second refresh started, and that refresh has published another catalog
C22_Witness ==
    /\ cyc[2].pc = "done"
    /\ \E i, j \in DOMAIN held :
          /\ held[i].op = "fetch_all_docs" /\ held[j].op = "get_all_cached_docs"
          /\ held[i].at = 1 /\ held[j].at = 1
          /\ held[i].seen # EmptyDict /\ held[j].seen # EmptyDict
          /\ docs_cache # held[i].seen /\ docs_cache # held[j].seen

-----------------------------------------------------------------------------
\* The URLs of a source, and whether every record of a cycle has a tool_name
UrlsOf(cs) == Get(SourceOf(cs), "urls", <<>>)
WellFormed(c) == \A s \in 1..Len(cyc[c].sources) : "tool_name" \in DOMAIN cyc[c].sources[s]

\* C23: a task never makes more than max_retries calls of client.get for each
\* URL of its source, so a cycle makes at most (number of URLs) x max_retries;
\* and, every client.get and every delay coming to an end, a call of
\* fetch_all_docs comes to its end whatever the other tasks do, and over
\* records that all have a tool_name it ends with a published catalog
C23_RefreshTerminates ==
    /\ [](\A cs \in Tasks : TaskOf(cs).gets <= Len(UrlsOf(cs)) * max_retries)
    /\ \A c \in Cycles : InFlight(c) ~> (cyc[c].pc \in {"done", "aborted"})
    /\ \A c \in Cycles : (InFlight(c) /\ WellFormed(c)) ~> (cyc[c].pc = "done")

\* A refresh has come to its end with a catalog, and a task of the next one
\* has made max_retries calls of client.get for each of its three URLs
C23_Witness ==
    /\ cyc[1].pc = "done"
    /\ docs_cache # EmptyDict
    /\ \E cs \in Tasks :
          /\ Len(UrlsOf(cs)) = 3
          /\ TaskOf(cs).gets = 3 * max_retries

====
